---- MODULE Spec2Model ----
(***************************************************************************)
(* The LLM response cache of metadata-code-extractor: InMemoryLLMCache and *)
(* FileLLMCache (integrations/llm/cache.py) and the LLMClient facade that  *)
(* consumes them (core/llm/client.py).                                     *)
(*                                                                         *)
(* Python values are modelled as tagged records so that values of          *)
(* different Python types can be compared.  A str key is a sequence of     *)
(* one-character strings.  datetime values are integers (clock ticks).     *)
(***************************************************************************)
EXTENDS Integers, Sequences, FiniteSets, TLC

VARIABLES
    backend,        \* which LLMCacheInterface implementation the cache is
    default_ttl,    \* self.default_ttl
    max_file_size,  \* FileLLMCache.max_file_size
    now,            \* datetime.now()
    _cache,         \* InMemoryLLMCache._cache : key -> entry
    cache_dir,      \* FileLLMCache.cache_dir : file name -> file content
    fixture,        \* the keys, responses and requests the callers of this run use
    last,           \* the most recent cache call: its name, key and outcome
    provider_adapter,   \* LLMClient.provider_adapter: "none" or "adapter"
    call_count,     \* invocations of the provider's completion/embedding methods
    calls           \* the client calls of this run, in the order they began

clientVars == <<provider_adapter, call_count, calls>>

vars == <<backend, default_ttl, max_file_size, now, _cache, cache_dir,
          fixture, last, provider_adapter, call_count, calls>>

----------------------------------------------------------------------------
(* Bounds of the model. *)

MaxTime == 2            \* the clock runs over 0..MaxTime
MaxTtl == 1             \* ttl arguments range over 0..MaxTtl, default_ttl is above
MaxForeign == 1         \* cache files that something else has written, at a time
MaxCalls == 2           \* client calls in one run
HourTicks == 3          \* clock ticks in one hour (3600 seconds)
MaxKeyLen == 2          \* characters of a key whose file name is computed

----------------------------------------------------------------------------
(* JSON-compatible Python values. *)

Null == [t |-> "null"]
Str(s) == [t |-> "str", s |-> s]
Num(n) == [t |-> "int", n |-> n]
Float(tenths) == [t |-> "float", tenths |-> tenths]
List(l) == [t |-> "list", l |-> l]
Dict(d) == [t |-> "dict", d |-> d]

(* datetime.isoformat(): the str that renders instant n. *)
isoformat(n) == [t |-> "str", iso |-> n]

(* datetime.fromisoformat(v): TypeError unless v is a str, ValueError      *)
(* unless the str is an ISO-8601 rendering.                                *)
fromisoformat(v) ==
    IF v.t # "str" THEN [raised |-> "TypeError", value |-> 0]
    ELSE IF "iso" \in DOMAIN v THEN [raised |-> "none", value |-> v.iso]
    ELSE [raised |-> "ValueError", value |-> 0]

(* d[k] = v on a Python dict. *)
DictSet(d, k, v) == [x \in (DOMAIN d) \cup {k} |-> IF x = k THEN v ELSE d[x]]

(* {k: v for k, v in d.items() if k != key} *)
DictWithout(d, key) == [x \in (DOMAIN d) \ {key} |-> d[x]]

----------------------------------------------------------------------------
(* Python objects handed to the cache. *)

None == [cls |-> "NoneType"]
Unsupported == [cls |-> "str"]        \* an object that is not a response

(* A pydantic model instance: its class and its field values, extras      *)
(* included (both response models set extra = "allow").                    *)
Obj(cls, fields) == [cls |-> cls, fields |-> fields]

(* BaseModel.model_dump() *)
model_dump(o) == o.fields

(* isinstance(response, (LLMResponse, EmbeddingResponse)) *)
IsResponse(o) == o.cls \in {"LLMResponse", "EmbeddingResponse"}

IsOptional(fields, name, tags) ==
    name \in DOMAIN fields => fields[name].t \in tags \cup {"null"}

(* LLMResponse(kwargs...): pydantic validation of the declared fields;      *)
(* undeclared keyword arguments are kept as extras.                        *)
LLMResponse(kwargs) ==
    IF /\ "content" \in DOMAIN kwargs /\ kwargs["content"].t = "str"
       /\ "model" \in DOMAIN kwargs /\ kwargs["model"].t = "str"
       /\ IsOptional(kwargs, "usage", {"dict"})
       /\ IsOptional(kwargs, "finish_reason", {"str"})
    THEN [raised |-> "none",
          value |-> Obj("LLMResponse",
                        [x \in (DOMAIN kwargs) \cup {"usage", "finish_reason"} |->
                            IF x \in DOMAIN kwargs THEN kwargs[x] ELSE Null])]
    ELSE [raised |-> "ValueError", value |-> None]

(* EmbeddingResponse(kwargs...) *)
EmbeddingResponse(kwargs) ==
    IF /\ "embeddings" \in DOMAIN kwargs /\ kwargs["embeddings"].t = "list"
       /\ "model" \in DOMAIN kwargs /\ kwargs["model"].t = "str"
       /\ IsOptional(kwargs, "usage", {"dict"})
    THEN [raised |-> "none",
          value |-> Obj("EmbeddingResponse",
                        [x \in (DOMAIN kwargs) \cup {"usage"} |->
                            IF x \in DOMAIN kwargs THEN kwargs[x] ELSE Null])]
    ELSE [raised |-> "ValueError", value |-> None]

(* The responses the model hands to set. *)
ChatR ==
    LLMResponse([content |-> Str("hi"), model |-> Str("m"),
                 usage |-> Null, finish_reason |-> Str("stop")]).value
TaggedChatR ==   \* carries an extra field that is named response_type
    LLMResponse([content |-> Str("hi"), model |-> Str("m"),
                 response_type |-> Str("x")]).value
EmbR ==
    EmbeddingResponse([embeddings |-> List(<<List(<<Float(1), Float(2)>>)>>),
                       model |-> Str("e"),
                       usage |-> Dict([total_tokens |-> Num(5)])]).value

Responses == {ChatR, TaggedChatR, EmbR}

----------------------------------------------------------------------------
(* Cache keys. *)

Whitespace == {" "}
InvalidKeys == { <<>>, <<" ">> }
ValidKeys == { <<"a">>, <<"/">>, <<"_">> }

(* str.strip() *)
RECURSIVE lstrip(_)
lstrip(s) == IF s # <<>> /\ Head(s) \in Whitespace THEN lstrip(Tail(s)) ELSE s
RECURSIVE rstrip(_)
rstrip(s) ==
    IF s # <<>> /\ s[Len(s)] \in Whitespace THEN rstrip(SubSeq(s, 1, Len(s) - 1)) ELSE s
strip(s) == rstrip(lstrip(s))

(* not key or not key.strip() *)
KeyIsEmpty(key) == key = <<>> \/ strip(key) = <<>>

----------------------------------------------------------------------------
(* The record of a cache call. *)

(* removed: the keys (memory) or files (file backend) the call deleted;     *)
(* expires_at: the expiry get compared with the clock, if it read one.     *)
Call(op, key, raised, ret, count, expires_at, removed) ==
    [op |-> op, key |-> key, raised |-> raised, ret |-> ret, count |-> count,
     expires_at |-> expires_at, removed |-> removed]

NoExpiry == -1
NoCall == Call("none", <<>>, "none", None, 0, NoExpiry, {})

(* The LLMCacheError messages of cache.py. *)
EmptyKey == "LLMCacheError: Cache key cannot be empty"
NoneResponse == "LLMCacheError: Response cannot be None"
UnsupportedType == "LLMCacheError: Unsupported response type"
TooLarge == "LLMCacheError: Response too large for cache"
LLMCacheError == {EmptyKey, NoneResponse, UnsupportedType, TooLarge}

(* ttl = ttl or self.default_ttl *)
TtlOrDefault(given, ttl, dflt) == IF given /\ ttl # 0 THEN ttl ELSE dflt

(* The argument checks with a key test that only rejects the empty str. *)
SetArgsErrorNoStrip(key, response) ==
    IF key = <<>> THEN EmptyKey
    ELSE IF response = None THEN NoneResponse
    ELSE IF ~IsResponse(response) THEN UnsupportedType
    ELSE "none"

(* The three argument checks that open both set methods. *)
SetArgsError(key, response) ==
    IF KeyIsEmpty(key) THEN EmptyKey
    ELSE IF response = None THEN NoneResponse
    ELSE IF ~IsResponse(response) THEN UnsupportedType
    ELSE "none"

----------------------------------------------------------------------------
(* InMemoryLLMCache *)

Entry(response, expires_at) == [response |-> response, expires_at |-> expires_at]

(* del self._cache[key] *)
MemDel(c, keys) == [k \in (DOMAIN c) \ keys |-> c[k]]

(* get that lets an entry live one tick past its expiry. *)
MemGetLate(c, key, t) ==
    IF key \notin DOMAIN c
    THEN [cache |-> c, raised |-> "none", ret |-> None, expires_at |-> NoExpiry]
    ELSE IF t > c[key].expires_at + 1
         THEN [cache |-> MemDel(c, {key}), raised |-> "none", ret |-> None,
               expires_at |-> c[key].expires_at]
         ELSE [cache |-> c, raised |-> "none", ret |-> c[key].response,
               expires_at |-> c[key].expires_at]



(* get that subscripts the dict without testing for the key first. *)
MemGetUnguarded(c, key, t) ==
    IF key \notin DOMAIN c
    THEN [cache |-> c, raised |-> "KeyError", ret |-> None, expires_at |-> NoExpiry]
    ELSE IF t > c[key].expires_at
         THEN [cache |-> MemDel(c, {key}), raised |-> "none", ret |-> None,
               expires_at |-> c[key].expires_at]
         ELSE [cache |-> c, raised |-> "none", ret |-> c[key].response,
               expires_at |-> c[key].expires_at]


(* get that renews the entry it returns. *)
MemGetRenewing(c, key, t) ==
    IF key \notin DOMAIN c
    THEN [cache |-> c, raised |-> "none", ret |-> None, expires_at |-> NoExpiry]
    ELSE IF t > c[key].expires_at
         THEN [cache |-> MemDel(c, {key}), raised |-> "none", ret |-> None,
               expires_at |-> c[key].expires_at]
         ELSE [cache |-> [c EXCEPT ![key].expires_at = t + 1], raised |-> "none",
               ret |-> c[key].response, expires_at |-> c[key].expires_at]

(* get that purges every expired entry when it finds the looked-up one     *)
(* expired.                                                                *)
MemGetPurging(c, key, t) ==
    IF key \notin DOMAIN c
    THEN [cache |-> c, raised |-> "none", ret |-> None, expires_at |-> NoExpiry]
    ELSE IF t > c[key].expires_at
         THEN [cache |-> MemDel(c, {k \in DOMAIN c : t > c[k].expires_at}),
               raised |-> "none", ret |-> None, expires_at |-> c[key].expires_at]
         ELSE [cache |-> c, raised |-> "none", ret |-> c[key].response,
               expires_at |-> c[key].expires_at]

(* InMemoryLLMCache.get *)
MemGet(c, key, t) ==
    IF key \notin DOMAIN c
    THEN [cache |-> c, raised |-> "none", ret |-> None, expires_at |-> NoExpiry]
    ELSE IF t > c[key].expires_at
         THEN [cache |-> MemDel(c, {key}), raised |-> "none", ret |-> None,
               expires_at |-> c[key].expires_at]
         ELSE [cache |-> c, raised |-> "none", ret |-> c[key].response,
               expires_at |-> c[key].expires_at]

(* InMemoryLLMCache.set *)
MemSet(c, key, response, given, ttl, t, dflt) ==
    IF SetArgsError(key, response) # "none"
    THEN [cache |-> c, raised |-> SetArgsError(key, response)]
    ELSE [cache |-> DictSet(c, key, Entry(response, t + TtlOrDefault(given, ttl, dflt))),
          raised |-> "none"]

(* A cleanup that deletes nothing. *)
MemCleanupNothing(c, t) == c

(* InMemoryLLMCache._cleanup_expired *)
MemCleanupExpired(c, t) ==
    MemDel(c, {k \in DOMAIN c : t > c[k].expires_at})

(* size that counts before it cleans up. *)
MemSizeCountFirst(c, t) ==
    [cache |-> MemCleanupExpired(c, t), count |-> Cardinality(DOMAIN c)]

(* InMemoryLLMCache.size *)
MemSize(c, t) ==
    [cache |-> MemCleanupExpired(c, t),
     count |-> Cardinality(DOMAIN MemCleanupExpired(c, t))]

(* InMemoryLLMCache.clear *)
MemClear(c) == <<>>

----------------------------------------------------------------------------
(* json.dumps / json.load and the length of the text json.dumps writes. *)

json_dumps(v) == [json |-> v]
Garbage == [garbage |-> "invalid json content"]

(* json.load(f): JSONDecodeError on text that is not JSON. *)
json_load(text) ==
    IF "json" \in DOMAIN text THEN [raised |-> "none", value |-> text.json]
    ELSE [raised |-> "JSONDecodeError", value |-> Null]

IsoLen == 26    \* characters of datetime.isoformat() with microseconds

RECURSIVE SumOver(_, _)
SumOver(S, f) ==
    IF S = {} THEN 0
    ELSE LET x == CHOOSE y \in S : TRUE IN f[x] + SumOver(S \ {x}, f)

(* len(json.dumps(v, indent=2).encode('utf-8')) of the value v nested      *)
(* depth levels deep (all modelled text is ASCII).                         *)
RECURSIVE JsonLen(_, _)
JsonLen(v, depth) ==
    CASE v.t = "null" -> 4
      [] v.t = "str" -> IF "iso" \in DOMAIN v THEN IsoLen + 2 ELSE Len(v.s) + 2
      [] v.t = "int" -> IF v.n < 10 THEN 1 ELSE 2
      [] v.t = "float" -> 3
      [] v.t = "list" ->
            IF v.l = <<>> THEN 2
            ELSE 2 + SumOver(DOMAIN v.l,
                             [i \in DOMAIN v.l |->
                                 2 * (depth + 1) + JsonLen(v.l[i], depth + 1)])
                   + 2 * (Len(v.l) - 1) + 1 + 2 * depth + 1
      [] v.t = "dict" ->
            IF DOMAIN v.d = {} THEN 2
            ELSE 2 + SumOver(DOMAIN v.d,
                             [k \in DOMAIN v.d |->
                                 2 * (depth + 1) + Len(k) + 4 + JsonLen(v.d[k], depth + 1)])
                   + 2 * (Cardinality(DOMAIN v.d) - 1) + 1 + 2 * depth + 1

----------------------------------------------------------------------------
(* FileLLMCache *)

Unsafe == {"<", ">", ":", "\"", "/", "\\", "|", "?", "*"}

(* A file name that keeps the key as it is. *)
PathUnsanitized(key) == key \o <<".json">>

(* FileLLMCache._get_cache_file_path: re.sub(r'[<>:"/\\|?*]', '_', key)    *)
(* followed by ".json"; the result names a file of cache_dir.              *)
_get_cache_file_path(key) ==
    [i \in DOMAIN key |-> IF key[i] \in Unsafe THEN "_" ELSE key[i]] \o <<".json">>

(* cache_file.unlink(missing_ok=True) *)
Unlink(d, path) == [p \in (DOMAIN d) \ {path} |-> d[p]]

(* The exceptions the except clauses of get and _cleanup_expired name. *)
Caught == {"JSONDecodeError", "KeyError", "ValueError", "OSError"}

(* data[name] on a parsed JSON value: TypeError unless data is a dict,     *)
(* KeyError when the dict lacks name.                                      *)
Subscript(data, name) ==
    IF data.t # "dict" THEN [raised |-> "TypeError", value |-> Null]
    ELSE IF name \notin DOMAIN data.d THEN [raised |-> "KeyError", value |-> Null]
    ELSE [raised |-> "none", value |-> data.d[name]]

(* The body of the try block of FileLLMCache.get, lines 234-254: what it   *)
(* raises, what it returns and whether it unlinked the file.               *)
ReadEntry(text, t) ==
    LET data == json_load(text)
        exp == Subscript(data.value, "expires_at")
        expires_at == fromisoformat(exp.value)
        resp == Subscript(data.value, "response")
        response_data == resp.value
        response_type ==
            IF "response_type" \in DOMAIN response_data.d
            THEN response_data.d["response_type"] ELSE Null
        kwargs == DictWithout(response_data.d, "response_type")
        built == IF response_type = Str("LLMResponse") THEN LLMResponse(kwargs)
                 ELSE EmbeddingResponse(kwargs)
        Raise(e, seen) ==
            [raised |-> e, ret |-> None, unlink |-> FALSE, expires_at |-> seen]
        Return(value, unlink) ==
            [raised |-> "none", ret |-> value, unlink |-> unlink,
             expires_at |-> expires_at.value]
    IN  IF data.raised # "none" THEN Raise(data.raised, NoExpiry)
        ELSE IF exp.raised # "none" THEN Raise(exp.raised, NoExpiry)
        ELSE IF expires_at.raised # "none" THEN Raise(expires_at.raised, NoExpiry)
        ELSE IF t > expires_at.value THEN Return(None, TRUE)
        ELSE IF resp.raised # "none" THEN Raise(resp.raised, expires_at.value)
        ELSE IF response_data.t # "dict" THEN Raise("AttributeError", expires_at.value)
        ELSE IF response_type \notin {Str("LLMResponse"), Str("EmbeddingResponse")}
             THEN Return(None, TRUE)
        ELSE IF built.raised # "none" THEN Raise(built.raised, expires_at.value)
        ELSE Return(built.value, FALSE)

(* FileLLMCache.get *)
FileGet(d, key, t) ==
    LET cache_file == _get_cache_file_path(key)
        r == ReadEntry(d[cache_file], t)
    IN  IF cache_file \notin DOMAIN d
        THEN [dir |-> d, raised |-> "none", ret |-> None, expires_at |-> NoExpiry]
        ELSE IF r.raised \in Caught
             THEN [dir |-> Unlink(d, cache_file), raised |-> "none", ret |-> None,
                   expires_at |-> r.expires_at]
        ELSE IF r.raised # "none"
             THEN [dir |-> d, raised |-> r.raised, ret |-> None,
                   expires_at |-> r.expires_at]
        ELSE [dir |-> IF r.unlink THEN Unlink(d, cache_file) ELSE d,
              raised |-> "none", ret |-> r.ret, expires_at |-> r.expires_at]

(* The text FileLLMCache.set writes, lines 290-300. *)
CacheJson(response, expires_at) ==
    LET response_data ==
            DictSet(model_dump(response), "response_type", Str(response.cls))
        cache_data == Dict([response |-> Dict(response_data),
                            expires_at |-> isoformat(expires_at)])
    IN  json_dumps(cache_data)

(* set that writes the file before it checks the size. *)
FileSetWriteFirst(d, key, response, given, ttl, t, dflt, maxsize) ==
    LET cache_json == CacheJson(response, t + TtlOrDefault(given, ttl, dflt))
    IN  IF SetArgsError(key, response) # "none"
        THEN [dir |-> d, raised |-> SetArgsError(key, response)]
        ELSE IF JsonLen(cache_json.json, 0) > maxsize
             THEN [dir |-> DictSet(d, _get_cache_file_path(key), cache_json),
                   raised |-> TooLarge]
        ELSE [dir |-> DictSet(d, _get_cache_file_path(key), cache_json),
              raised |-> "none"]

(* FileLLMCache.set *)
FileSet(d, key, response, given, ttl, t, dflt, maxsize) ==
    LET cache_json == CacheJson(response, t + TtlOrDefault(given, ttl, dflt))
    IN  IF SetArgsError(key, response) # "none"
        THEN [dir |-> d, raised |-> SetArgsError(key, response)]
        ELSE IF JsonLen(cache_json.json, 0) > maxsize
             THEN [dir |-> d, raised |-> TooLarge]
        ELSE [dir |-> DictSet(d, _get_cache_file_path(key), cache_json),
              raised |-> "none"]

(* self.cache_dir.glob("*.json") *)
Glob(d) == {p \in DOMAIN d : p # <<>> /\ p[Len(p)] = ".json"}

(* clear whose glob pattern matches no cache file. *)
FileClearNoMatch(d) == d

(* FileLLMCache.clear *)
FileClear(d) == [p \in (DOMAIN d) \ Glob(d) |-> d[p]]

(* FileLLMCache.size *)
FileSize(d) == Cardinality(Glob(d))

(* One iteration of the loop of FileLLMCache._cleanup_expired: TRUE when   *)
(* the file is unlinked.                                                   *)
CleanupUnlinks(text, t) ==
    LET data == json_load(text)
        exp == Subscript(data.value, "expires_at")
        expires_at == fromisoformat(exp.value)
    IN  IF data.raised # "none" THEN TRUE
        ELSE IF exp.raised # "none" THEN exp.raised \in Caught
        ELSE IF expires_at.raised # "none" THEN expires_at.raised \in Caught
        ELSE t > expires_at.value

(* FileLLMCache._cleanup_expired when the loop runs to its end. *)
FileCleanupExpired(d, t) ==
    [p \in (DOMAIN d) \ {q \in Glob(d) : CleanupUnlinks(d[q], t)} |-> d[p]]

(* The files on which the loop body of _cleanup_expired raises an          *)
(* exception that its except clause does not name.                         *)
CleanupRaises(d) ==
    {p \in Glob(d) :
        LET data == json_load(d[p])
            exp == Subscript(data.value, "expires_at")
        IN  /\ data.raised = "none"
            /\ \/ exp.raised \notin Caught \cup {"none"}
               \/ /\ exp.raised = "none"
                  /\ fromisoformat(exp.value).raised \notin Caught \cup {"none"}}

----------------------------------------------------------------------------
(* Construction and the operations of the cache.                           *)

MaxFileSizes == {200, 10 * 1024 * 1024}
DefaultTtls == {MaxTtl + 1}
TtlArgs == 0 .. MaxTtl

(* What something other than the cache may leave at a cache file's path.   *)
Foreign ==
    { Garbage,
      json_dumps(List(<<>>)),
      json_dumps(Dict([response |-> Dict(<<>>)])),
      json_dumps(Dict([response |-> Dict(<<>>), expires_at |-> Num(7)])),
      json_dumps(Dict([response |-> Dict(<<>>), expires_at |-> Str("soon")])),
      json_dumps(Dict([response |-> Str("hi"), expires_at |-> isoformat(1)])),
      json_dumps(Dict([response |-> Dict([content |-> Str("hi")]),
                       expires_at |-> isoformat(1)])),
      json_dumps(Dict([response |-> Dict([response_type |-> Str("LLMResponse")]),
                       expires_at |-> isoformat(1)])),
      json_dumps(Dict([response |-> Dict([response_type |-> Str("Other"),
                                          content |-> Str("hi"), model |-> Str("m")]),
                       expires_at |-> isoformat(1)])) }

(* The keys and responses the callers of one run use. *)
Fixtures ==
    { [keys |-> ks, responses |-> rs, requests |-> {}] :
        ks \in { {<<"a">>, <<"/">>}, {<<"/">>, <<"_">>} },
        rs \in { {ChatR, TaggedChatR}, {ChatR, EmbR} } }

Keys == fixture.keys \cup InvalidKeys
SetArgs == fixture.responses \cup {None, Unsupported}

(* InMemoryLLMCache.__init__ / FileLLMCache.__init__ with valid arguments  *)
(* on an empty directory.                                                  *)
Init ==
    /\ backend \in {"memory", "file"}
    /\ default_ttl \in DefaultTtls
    /\ max_file_size \in IF backend = "file" THEN MaxFileSizes ELSE {10 * 1024 * 1024}
    /\ now = 0
    /\ _cache = <<>>
    /\ cache_dir = <<>>
    /\ fixture \in Fixtures
    /\ last = NoCall
    /\ provider_adapter = "none"
    /\ call_count = 0
    /\ calls = <<>>

(* cache.get(key) on whichever backend the cache is, in the store          *)
(* (mem, dir) at time t.                                                   *)
CacheGet(mem, dir, t, key) ==
    IF backend = "memory"
    THEN LET r == MemGet(mem, key, t)
         IN  [mem |-> r.cache, dir |-> dir, raised |-> r.raised, ret |-> r.ret,
              expires_at |-> r.expires_at]
    ELSE LET r == FileGet(dir, key, t)
         IN  [mem |-> mem, dir |-> r.dir, raised |-> r.raised, ret |-> r.ret,
              expires_at |-> r.expires_at]

(* cache.set(key, response[, ttl]) on whichever backend the cache is. *)
CacheSet(mem, dir, t, key, response, given, ttl) ==
    IF backend = "memory"
    THEN LET r == MemSet(mem, key, response, given, ttl, t, default_ttl)
         IN  [mem |-> r.cache, dir |-> dir, raised |-> r.raised]
    ELSE LET r == FileSet(dir, key, response, given, ttl, t, default_ttl, max_file_size)
         IN  [mem |-> mem, dir |-> r.dir, raised |-> r.raised]

(* cache.size() on whichever backend the cache is. *)
CacheSize(mem, dir, t) ==
    IF backend = "memory"
    THEN LET r == MemSize(mem, t)
         IN  [mem |-> r.cache, dir |-> dir, count |-> r.count]
    ELSE [mem |-> mem, dir |-> dir, count |-> FileSize(dir)]

(* cache.clear() on whichever backend the cache is. *)
CacheClear(mem, dir) ==
    IF backend = "memory"
    THEN [mem |-> MemClear(mem), dir |-> dir]
    ELSE [mem |-> mem, dir |-> FileClear(dir)]

(* What a call deleted: keys of _cache, or files of cache_dir. *)
Removed(mem, dir) ==
    IF backend = "memory" THEN (DOMAIN _cache) \ (DOMAIN mem)
    ELSE (DOMAIN cache_dir) \ (DOMAIN dir)

(* The clock advances. *)
Tick ==
    /\ now < MaxTime
    /\ now' = now + 1
    /\ UNCHANGED <<backend, default_ttl, max_file_size, _cache, cache_dir, fixture, last,
                   clientVars>>

(* cache.set(key, response) and cache.set(key, response, ttl) *)
Set(key, response, given, ttl) ==
    LET r == CacheSet(_cache, cache_dir, now, key, response, given, ttl)
    IN  /\ _cache' = r.mem
        /\ cache_dir' = r.dir
        /\ last' = Call("set", key, r.raised, None, 0, NoExpiry, {})
        /\ UNCHANGED <<backend, default_ttl, max_file_size, now, fixture, clientVars>>

(* cache.get(key) *)
Get(key) ==
    LET r == CacheGet(_cache, cache_dir, now, key)
    IN  /\ _cache' = r.mem
        /\ cache_dir' = r.dir
        /\ last' = Call("get", key, r.raised, r.ret, 0, r.expires_at,
                        Removed(r.mem, r.dir))
        /\ UNCHANGED <<backend, default_ttl, max_file_size, now, fixture, clientVars>>

(* cache.clear() *)
Clear ==
    LET r == CacheClear(_cache, cache_dir)
    IN  /\ _cache' = r.mem
        /\ cache_dir' = r.dir
        /\ last' = Call("clear", <<>>, "none", None, 0, NoExpiry, Removed(r.mem, r.dir))
        /\ UNCHANGED <<backend, default_ttl, max_file_size, now, fixture, clientVars>>

(* cache.size() *)
Size ==
    LET r == CacheSize(_cache, cache_dir, now)
    IN  /\ _cache' = r.mem
        /\ cache_dir' = r.dir
        /\ last' = Call("size", <<>>, "none", None, r.count, NoExpiry,
                        Removed(r.mem, r.dir))
        /\ UNCHANGED <<backend, default_ttl, max_file_size, now, fixture, clientVars>>

(* cache._cleanup_expired().  In the file backend an exception the except  *)
(* clause does not name ends the loop at the file that raised it, after    *)
(* the files glob yielded before it (in an order the platform chooses).    *)
CleanupExpired ==
    /\ IF backend = "memory"
       THEN /\ _cache' = MemCleanupExpired(_cache, now)
            /\ last' = Call("cleanup", <<>>, "none", None, 0, NoExpiry,
                            Removed(MemCleanupExpired(_cache, now), cache_dir))
            /\ UNCHANGED cache_dir
       ELSE /\ UNCHANGED _cache
            /\ \/ /\ CleanupRaises(cache_dir) = {}
                  /\ cache_dir' = FileCleanupExpired(cache_dir, now)
                  /\ last' = Call("cleanup", <<>>, "none", None, 0, NoExpiry,
                                  Removed(_cache, FileCleanupExpired(cache_dir, now)))
               \/ /\ CleanupRaises(cache_dir) # {}
                  /\ \E visited \in SUBSET (Glob(cache_dir) \ CleanupRaises(cache_dir)) :
                        LET gone == {q \in visited : CleanupUnlinks(cache_dir[q], now)}
                        IN  /\ cache_dir' = [p \in (DOMAIN cache_dir) \ gone |-> cache_dir[p]]
                            /\ last' = Call("cleanup", <<>>, "TypeError", None, 0,
                                            NoExpiry, gone)
    /\ UNCHANGED <<backend, default_ttl, max_file_size, now, fixture, clientVars>>

(* Something other than the cache writes to the path of a cache file. *)
Tamper(key, text) ==
    /\ backend = "file"
    /\ Cardinality({p \in DOMAIN cache_dir : cache_dir[p] \in Foreign}
                   \ {_get_cache_file_path(key)}) < MaxForeign
    /\ cache_dir' = DictSet(cache_dir, _get_cache_file_path(key), text)
    /\ UNCHANGED <<backend, default_ttl, max_file_size, now, _cache, fixture, last,
                   clientVars>>

(* The calls of the cache's users, and the clock. *)
Next ==
    \/ Tick
    \/ \E key \in Keys, response \in SetArgs : Set(key, response, FALSE, 0)
    \/ \E key \in Keys, response \in SetArgs, ttl \in TtlArgs : Set(key, response, TRUE, ttl)
    \/ \E key \in Keys : Get(key)
    \/ Clear
    \/ Size
    \/ CleanupExpired

Spec == Init /\ [][Next]_vars

(* The same with a cache directory that something else also writes to. *)
NextTamper ==
    \/ Next
    \/ \E key \in fixture.keys, text \in Foreign : Tamper(key, text)

SpecTamper == Init /\ [][NextTamper]_vars

----------------------------------------------------------------------------
(* LLMClient (core/llm/client.py) over a provider adapter and a cache.     *)
(* In the client's runs backend is LLMClient.cache: "none" when no cache   *)
(* is attached.  A call suspends at its two awaits, is_available() and the *)
(* provider's completion; what lies between two awaits runs in one step.   *)

EmptyRequest == "LLMClientError: Messages/Texts cannot be empty"
NoAdapter == "LLMProviderError: No provider adapter configured"
Unavailable == "LLMProviderError: Provider is not available"
ProviderFailure == "LLMProviderError: API Error"

(* Requests: chat messages or texts (each one hex character long), and     *)
(* the model_name of the configuration; the callers of one run make the   *)
(* requests of one fixture.                                                *)
Request(kind, data, config) == [kind |-> kind, data |-> data, config |-> config]
RequestFixtures ==
    { {Request("chat", <<>>, "c"), Request("chat", <<"a">>, "c"),
       Request("chat", <<"b">>, "c")},
      {Request("embed", <<>>, "e"), Request("embed", <<"a">>, "e"),
       Request("chat", <<"a">>, "d")} }
Requests == UNION RequestFixtures

HexDigit(n) == <<"0", "1", "2", "3", "4", "5", "6", "7", "8", "9">>[n + 1]

(* A key derivation that leaves the clock hour out of what it hashes. *)
KeyWithoutHour(req, t) ==
    <<IF req.kind = "chat" THEN "1" ELSE "2">> \o req.data \o <<req.config>>

(* A key derivation that leaves the configuration out of what it hashes. *)
KeyWithoutConfig(req, t) ==
    <<IF req.kind = "chat" THEN "1" ELSE "2">> \o req.data
        \o <<HexDigit(t \div HourTicks)>>

(* A key derivation that hashes the text of the request without the shape  *)
(* of its data (message dicts or plain strings).                           *)
KeyWithoutKind(req, t) ==
    req.data \o <<req.config, HexDigit(t \div HourTicks)>>

(* LLMClient._generate_cache_key at time t: the md5 hexdigest of the JSON  *)
(* of {data, config, int(time.time() / 3600)}.  The digest is modelled as  *)
(* collision-free: the hex string spells what was hashed.                  *)
_generate_cache_key(req, t) ==
    <<IF req.kind = "chat" THEN "1" ELSE "2">> \o req.data
        \o <<req.config, HexDigit(t \div HourTicks)>>

ResponseText == <<"Response 1", "Response 2", "Response 3", "Response 4">>

(* What the provider's n-th invocation answers to a request. *)
ProviderResponse(req, n) ==
    IF req.kind = "chat"
    THEN LLMResponse([content |-> Str(ResponseText[n]), model |-> Str("mock-model"),
                      finish_reason |-> Str("stop")]).value
    ELSE EmbeddingResponse([embeddings |-> List(<<List(<<Float(n)>>)>>),
                            model |-> Str("mock-embedding-model")]).value

(* A client call: where it stands (pc), what is_available() told it, the   *)
(* keys it passed to cache.get and cache.set and when, which provider      *)
(* invocation it made (0: none), how it ended, and whether another call    *)
(* was in flight while it ran; evicted: the keys (memory) or files (file   *)
(* backend) its cache.get deleted.                                         *)
NewCall(req) ==
    [req |-> req, pc |-> "is_available", avail |-> "unasked",
     key_get |-> <<>>, get_at |-> 0, key_set |-> <<>>, set_at |-> 0, nth |-> 0,
     raised |-> "none", result |-> None, overlapped |-> FALSE, evicted |-> {}]

Raised(call, e) == [call EXCEPT !.pc = "done", !.raised = e]
Returned(call, response) == [call EXCEPT !.pc = "done", !.result = response]

(* Lines 108-112 / 184-188: the checks before the first await. *)
CheckRequest(req, adapter) ==
    IF req.data = <<>> THEN EmptyRequest
    ELSE IF adapter = "none" THEN NoAdapter
    ELSE "none"

(* Lines 121-126 / 197-202: what a call does with the result r of          *)
(* cache.get(key) on the store (mem, dir): return a hit, invoke the        *)
(* provider on a miss.                                                     *)
CacheAnswer(call, key, t, r, count, mem, dir) ==
    LET looked == [call EXCEPT !.key_get = key, !.get_at = t,
                               !.evicted = ((DOMAIN mem) \ (DOMAIN r.mem))
                                           \cup ((DOMAIN dir) \ (DOMAIN r.dir))]
    IN  IF r.raised # "none"
        THEN [call |-> Raised(looked, r.raised),
              mem |-> r.mem, dir |-> r.dir, count |-> count]
        ELSE IF r.ret # None
        THEN [call |-> Returned(looked, r.ret),
              mem |-> r.mem, dir |-> r.dir, count |-> count]
        ELSE [call |-> [looked EXCEPT !.pc = "provider", !.nth = count + 1],
              mem |-> r.mem, dir |-> r.dir, count |-> count + 1]

(* Lookup that trusts the cache before it looks at is_available(). *)
LookupCacheFirst(call, answer, mem, dir, t, count) ==
    LET key == _generate_cache_key(call.req, t)
        asked == [call EXCEPT !.avail = IF answer THEN "yes" ELSE "no"]
    IN  IF backend # "none"
        THEN CacheAnswer(asked, key, t, CacheGet(mem, dir, t, key), count, mem, dir)
        ELSE IF ~answer
        THEN [call |-> Raised(asked, Unavailable), mem |-> mem, dir |-> dir,
              count |-> count]
        ELSE [call |-> [asked EXCEPT !.pc = "provider", !.nth = count + 1],
              mem |-> mem, dir |-> dir, count |-> count + 1]

(* Lookup that never finds anything in the cache. *)
LookupAlwaysMiss(call, answer, mem, dir, t, count) ==
    LET key == _generate_cache_key(call.req, t)
        asked == [call EXCEPT !.avail = IF answer THEN "yes" ELSE "no"]
    IN  IF ~answer
        THEN [call |-> Raised(asked, Unavailable), mem |-> mem, dir |-> dir,
              count |-> count]
        ELSE [call |-> [asked EXCEPT !.pc = "provider", !.nth = count + 1,
                                     !.key_get = IF backend = "none" THEN <<>> ELSE key,
                                     !.get_at = t],
              mem |-> mem, dir |-> dir, count |-> count + 1]

(* Lookup that joins a call for the same request that is awaiting the      *)
(* provider, instead of invoking the provider again.                       *)
LookupCoalescing(call, answer, mem, dir, t, count) ==
    LET key == _generate_cache_key(call.req, t)
        asked == [call EXCEPT !.avail = IF answer THEN "yes" ELSE "no"]
        pending == {k \in DOMAIN calls :
                       calls[k].pc = "provider" /\ calls[k].req = call.req}
    IN  IF ~answer
        THEN [call |-> Raised(asked, Unavailable), mem |-> mem, dir |-> dir,
              count |-> count]
        ELSE IF pending # {}
        THEN [call |-> [asked EXCEPT !.pc = "provider",
                                     !.nth = calls[CHOOSE k \in pending : TRUE].nth,
                                     !.key_get = IF backend = "none" THEN <<>> ELSE key,
                                     !.get_at = t],
              mem |-> mem, dir |-> dir, count |-> count]
        ELSE IF backend = "none"
        THEN [call |-> [asked EXCEPT !.pc = "provider", !.nth = count + 1],
              mem |-> mem, dir |-> dir, count |-> count + 1]
        ELSE CacheAnswer(asked, key, t, CacheGet(mem, dir, t, key), count, mem, dir)

(* Lines 115-126 / 191-202: is_available() has answered; the cache is      *)
(* looked up and, on a miss, the provider is invoked.                      *)
Lookup(call, answer, mem, dir, t, count) ==
    LET key == _generate_cache_key(call.req, t)
        asked == [call EXCEPT !.avail = IF answer THEN "yes" ELSE "no"]
    IN  IF ~answer
        THEN [call |-> Raised(asked, Unavailable), mem |-> mem, dir |-> dir,
              count |-> count]
        ELSE IF backend = "none"
        THEN [call |-> [asked EXCEPT !.pc = "provider", !.nth = count + 1],
              mem |-> mem, dir |-> dir, count |-> count + 1]
        ELSE CacheAnswer(asked, key, t, CacheGet(mem, dir, t, key), count, mem, dir)

(* A client that swallows what cache.set raises and returns the provider's  *)
(* response all the same.                                                  *)
StoredSwallowing(call, key, t, response, w) ==
    [call |-> Returned([call EXCEPT !.key_set = key, !.set_at = t], response),
     mem |-> w.mem, dir |-> w.dir]

(* Lines 131-133 / 207-209: the call after cache.set(key, response), whose *)
(* outcome is w.                                                           *)
Stored(call, key, t, response, w) ==
    IF w.raised # "none"
    THEN [call |-> Raised([call EXCEPT !.key_set = key, !.set_at = t], w.raised),
          mem |-> w.mem, dir |-> w.dir]
    ELSE [call |-> Returned([call EXCEPT !.key_set = key, !.set_at = t], response),
          mem |-> w.mem, dir |-> w.dir]

(* A client that answers every call with the provider's first response. *)
StoreFirstResponse(call, ok, mem, dir, t) ==
    LET response == ProviderResponse(call.req, 1)
        key == _generate_cache_key(call.req, t)
    IN  IF ~ok
        THEN [call |-> Raised(call, ProviderFailure), mem |-> mem, dir |-> dir]
        ELSE IF backend = "none"
        THEN [call |-> Returned(call, response), mem |-> mem, dir |-> dir]
        ELSE Stored(call, key, t, response,
                    CacheSet(mem, dir, t, key, response, FALSE, 0))

(* Store that swallows the provider's failure and answers in its place. *)
StoreIgnoringFailure(call, ok, mem, dir, t) ==
    LET response == ProviderResponse(call.req, call.nth)
        key == _generate_cache_key(call.req, t)
    IN  IF backend = "none"
        THEN [call |-> Returned(call, response), mem |-> mem, dir |-> dir]
        ELSE Stored(call, key, t, response,
                    CacheSet(mem, dir, t, key, response, FALSE, 0))

(* Lines 126-133 / 202-209: the provider has answered (ok) or failed; the  *)
(* key is derived again and the response stored.                           *)
Store(call, ok, mem, dir, t) ==
    LET response == ProviderResponse(call.req, call.nth)
        key == _generate_cache_key(call.req, t)
    IN  IF ~ok
        THEN [call |-> Raised(call, ProviderFailure), mem |-> mem, dir |-> dir]
        ELSE IF backend = "none"
        THEN [call |-> Returned(call, response), mem |-> mem, dir |-> dir]
        ELSE Stored(call, key, t, response,
                    CacheSet(mem, dir, t, key, response, FALSE, 0))

(* Call i goes on as r says, and the cache is left as r says. *)
Resume(i, r) ==
    /\ calls' = [calls EXCEPT ![i] = r.call]
    /\ _cache' = r.mem
    /\ cache_dir' = r.dir

InFlight == {i \in DOMAIN calls : calls[i].pc # "done"}

(* LLMClient(provider_adapter, cache) over a new, empty cache. *)
InitClient ==
    /\ backend \in {"none", "memory", "file"}
    /\ default_ttl \in {1, HourTicks}
    /\ max_file_size = 10 * 1024 * 1024
    /\ now = 0
    /\ _cache = <<>>
    /\ cache_dir = <<>>
    /\ fixture \in {[keys |-> {}, responses |-> {}, requests |-> rs] :
                      rs \in RequestFixtures}
    /\ last = NoCall
    /\ provider_adapter \in {"none", "adapter"}
    /\ call_count = 0
    /\ calls = <<>>

(* client.get_chat_completion(messages, config) or                         *)
(* client.generate_embeddings(texts, config) is called and runs to its     *)
(* first await.                                                            *)
Begin(req) ==
    /\ Len(calls) < MaxCalls
    /\ calls' =
         IF CheckRequest(req, provider_adapter) # "none"
         THEN Append(calls, Raised(NewCall(req), CheckRequest(req, provider_adapter)))
         ELSE Append([i \in DOMAIN calls |->
                         IF i \in InFlight THEN [calls[i] EXCEPT !.overlapped = TRUE]
                         ELSE calls[i]],
                     [NewCall(req) EXCEPT !.overlapped = InFlight # {}])
    /\ UNCHANGED <<backend, default_ttl, max_file_size, now, _cache, cache_dir,
                   fixture, last, provider_adapter, call_count>>

(* is_available() answers call i. *)
Available(i, answer) ==
    /\ calls[i].pc = "is_available"
    /\ Resume(i, Lookup(calls[i], answer, _cache, cache_dir, now, call_count))
    /\ call_count' = Lookup(calls[i], answer, _cache, cache_dir, now, call_count).count
    /\ UNCHANGED <<backend, default_ttl, max_file_size, now, fixture, last,
                   provider_adapter>>

(* The provider answers call i, or fails. *)
ProviderDone(i, ok) ==
    /\ calls[i].pc = "provider"
    /\ Resume(i, Store(calls[i], ok, _cache, cache_dir, now))
    /\ UNCHANGED <<backend, default_ttl, max_file_size, now, fixture, last,
                   provider_adapter, call_count>>

NextClient ==
    \/ Tick
    \/ \E req \in fixture.requests : Begin(req)
    \/ \E i \in DOMAIN calls, answer \in BOOLEAN : Available(i, answer)
    \/ \E i \in DOMAIN calls, ok \in BOOLEAN : ProviderDone(i, ok)

SpecClient == InitClient /\ [][NextClient]_vars

(* The clock advances, as far as the first instant of the next hour. *)
TickHour ==
    /\ now < HourTicks
    /\ now' = now + 1
    /\ UNCHANGED <<backend, default_ttl, max_file_size, _cache, cache_dir, fixture, last,
                   clientVars>>

(* One caller that awaits each call before it makes the next, over a full  *)
(* clock hour.                                                             *)
NextSerial ==
    \/ TickHour
    \/ \E req \in fixture.requests : InFlight = {} /\ Begin(req)
    \/ \E i \in DOMAIN calls, answer \in BOOLEAN : Available(i, answer)
    \/ \E i \in DOMAIN calls, ok \in BOOLEAN : ProviderDone(i, ok)

SpecSerial == InitClient /\ [][NextSerial]_vars

----------------------------------------------------------------------------
(* Properties of the cache backends.                                       *)

(* The step is a call of get, with the key the call record names. *)
AnyGet == last'.op = "get" /\ last'.key \in Keys /\ Get(last'.key)

(* The step is a call of set with this key (the clock stands still during  *)
(* a call).                                                                *)
SetStep(key) == last'.op = "set" /\ last'.key = key /\ now' = now

(* len(cache_json.encode('utf-8')) for each response; the expiry does not  *)
(* change the length.                                                      *)
SerializedLen == [r \in Responses |-> JsonLen(CacheJson(r, 0).json, 0)]

(* The expiry recorded in a cache file that set wrote. *)
FileExpiresAt(text) == text.json.d["expires_at"].iso

(* The entries that have not expired: keys of _cache, files of cache_dir   *)
(* (every file of the directory was written by set).                       *)
ValidEntries ==
    IF backend = "memory"
    THEN {k \in DOMAIN _cache : ~(now > _cache[k].expires_at)}
    ELSE {p \in DOMAIN cache_dir : ~(now > FileExpiresAt(cache_dir[p]))}

\* C1, as stated: in both backends get(K) returns absent whenever the stored
\* expires_at is at or before the current time, the instant expires_at = now
\* included.
C1_AbsentAtOrAfterExpiry ==
    [][AnyGet =>
        ((last'.expires_at # NoExpiry /\ last'.expires_at <= now)
            => last'.ret = None)]_vars

\* C1, amended: in both backends get(K) returns absent (without raising)
\* whenever the stored expires_at is strictly before the current time; at
\* the instant expires_at = now the entry still counts as live and its
\* response is returned.
C1_AbsentAfterExpiry ==
    [][AnyGet =>
        /\ (last'.expires_at # NoExpiry /\ last'.expires_at < now)
              => (last'.ret = None /\ last'.raised = "none")
        /\ (last'.expires_at # NoExpiry /\ last'.expires_at >= now)
              => IsResponse(last'.ret)]_vars

(* A get found an entry that had expired, returned absent and removed it. *)
C1_Witness ==
    /\ last.op = "get"
    /\ last.expires_at # NoExpiry
    /\ last.ret = None
    /\ last.removed # {}

\* C2, as stated: in both backends, for every valid response R and every key
\* K that is non-empty after trimming, set(K, R) followed by get(K) before the
\* clock passes the TTL returns a response deep-equal to R.
C2_RoundTrip ==
    [][\A key \in fixture.keys, r \in fixture.responses :
          (SetStep(key) /\ last'.raised = "none" /\ Set(key, r, FALSE, 0))
              => \A t \in now .. now + default_ttl :
                    /\ CacheGet(_cache', cache_dir', t, key).raised = "none"
                    /\ CacheGet(_cache', cache_dir', t, key).ret = r]_vars

\* C3, as stated: in both backends size() returns the number of entries that
\* have not expired.
C3_SizeCountsValidOnly ==
    [][Size => last'.count = Cardinality(ValidEntries)]_vars

\* C3, amended: InMemoryLLMCache.size() returns the number of entries that
\* have not expired (it purges the expired ones first); FileLLMCache.size()
\* returns the number of cache files in the directory, the files of expired
\* entries included, and removes none.
C3_SizeByBackend ==
    [][Size =>
        IF backend = "memory"
        THEN /\ last'.count = Cardinality(ValidEntries)
             /\ DOMAIN _cache' = ValidEntries
        ELSE /\ last'.count = Cardinality(DOMAIN cache_dir)
             /\ last'.count >= Cardinality(ValidEntries)
             /\ cache_dir' = cache_dir]_vars

(* A size() of the memory backend purged an expired entry and counted the  *)
(* live one that stayed.                                                   *)
C3_Witness ==
    /\ last.op = "size"
    /\ backend = "memory"
    /\ last.removed # {}
    /\ last.count >= 1

\* C6, as stated: FileLLMCache.get never raises on a damaged cache file: it
\* returns absent and the file no longer exists afterwards.
C6_DamagedFileIsAMiss ==
    [][\A key \in fixture.keys :
          (/\ backend = "file"
           /\ _get_cache_file_path(key) \in DOMAIN cache_dir
           /\ cache_dir[_get_cache_file_path(key)] \in Foreign
           /\ Get(key))
              => /\ last'.raised = "none"
                 /\ last'.ret = None
                 /\ _get_cache_file_path(key) \notin DOMAIN cache_dir']_vars

\* C7: in both backends set rejects an empty or whitespace-only key, a None
\* response and an object that is not a response with LLMCacheError, and the
\* rejected set leaves every entry, response and expiry as it was, whatever
\* the cache holds when set is called.
C7_RejectedSetChangesNothing ==
    \A key \in Keys, r \in SetArgs, given \in BOOLEAN, ttl \in TtlArgs :
        (key \in InvalidKeys \/ r \in {None, Unsupported}) =>
            LET w == CacheSet(_cache, cache_dir, now, key, r, given, ttl)
            IN  /\ w.raised \in LLMCacheError
                /\ w.mem = _cache
                /\ w.dir = cache_dir

(* A set with a whitespace-only key was rejected while the cache held an   *)
(* entry.                                                                  *)
C7_Witness ==
    /\ last.op = "set"
    /\ last.key = <<" ">>
    /\ last.raised = EmptyKey
    /\ (DOMAIN _cache) \cup (DOMAIN cache_dir) # {}

\* C8: FileLLMCache.set of a response whose serialized form exceeds
\* max_file_size raises LLMCacheError and writes nothing: no file appears
\* for the key, and an entry the key already had is unchanged and still
\* readable.
C8_TooLargeWritesNothing ==
    [][\A key \in fixture.keys, r \in fixture.responses,
          given \in BOOLEAN, ttl \in TtlArgs :
          (/\ SetStep(key)
           /\ backend = "file"
           /\ SerializedLen[r] > max_file_size
           /\ Set(key, r, given, ttl))
              => /\ last'.raised = TooLarge
                 /\ cache_dir' = cache_dir
                 /\ CacheGet(_cache', cache_dir', now, key).ret
                       = CacheGet(_cache, cache_dir, now, key).ret]_vars

(* A too-large set was rejected for a key that keeps its readable entry. *)
C8_Witness ==
    /\ last.op = "set"
    /\ last.raised = TooLarge
    /\ IsResponse(CacheGet(_cache, cache_dir, now, last.key).ret)

----------------------------------------------------------------------------
(* Properties of LLMClient.                                                *)

(* The first two calls ran one after the other, and both returned. *)
TwoCallsInARow ==
    /\ backend # "none"
    /\ Len(calls) >= 2
    /\ \A i \in {1, 2} :
          /\ calls[i].pc = "done"
          /\ calls[i].raised = "none"
          /\ ~calls[i].overlapped

(* Two requests with the same configuration and different messages. *)
DifferentMessages(a, b) ==
    a.kind = b.kind /\ a.config = b.config /\ a.data # b.data

\* C4, as stated: with a cache attached and the provider available, two
\* identical calls made one after the other invoke the provider exactly once
\* and return equal responses, the second from the cache; two calls with
\* different messages invoke the provider twice.
C4_SecondCallIsServedFromCache ==
    TwoCallsInARow =>
        /\ calls[1].req = calls[2].req
              => /\ calls[1].nth # 0
                 /\ calls[2].nth = 0
                 /\ calls[2].result = calls[1].result
        /\ DifferentMessages(calls[1].req, calls[2].req)
              => calls[1].nth # 0 /\ calls[2].nth # 0

\* C4, amended: the same, provided the second call looks the cache up in the
\* clock hour in which the first call stored its response and before that
\* entry's TTL has run out; otherwise the second call misses and invokes the
\* provider again.
C4_SecondCallInSameHourIsServedFromCache ==
    TwoCallsInARow =>
        /\ calls[1].nth # 0
        /\ calls[1].req = calls[2].req
              => IF /\ calls[2].get_at \div HourTicks = calls[1].set_at \div HourTicks
                    /\ calls[2].get_at <= calls[1].set_at + default_ttl
                 THEN calls[2].nth = 0 /\ calls[2].result = calls[1].result
                 ELSE calls[2].nth # 0
        /\ DifferentMessages(calls[1].req, calls[2].req) => calls[2].nth # 0

(* The second of two identical calls was served from the cache. *)
C4_Witness ==
    /\ TwoCallsInARow
    /\ calls[1].req = calls[2].req
    /\ calls[2].nth = 0
    /\ calls[2].result = calls[1].result
    /\ IsResponse(calls[2].result)

\* C5, as stated: on a cache miss the key passed to cache.set is the key that
\* the same call passed to cache.get, however long the provider took.
C5_StoredUnderLookedUpKey ==
    \A i \in DOMAIN calls :
        calls[i].key_set # <<>> => calls[i].key_set = calls[i].key_get

\* C10: the client checks, in this order, empty request (LLMClientError), no
\* adapter (LLMProviderError), adapter unavailable (LLMProviderError); in each
\* case the cache is neither read nor written and the provider is not
\* invoked, also when the cache holds a live entry for the request.
C10_ChecksComeBeforeCacheAndProvider ==
    [][/\ \A req \in fixture.requests :
             Begin(req) =>
                LET call == calls'[Len(calls')]
                IN  /\ req.data = <<>> => call.raised = EmptyRequest
                    /\ (req.data # <<>> /\ provider_adapter = "none")
                          => call.raised = NoAdapter
                    /\ (req.data # <<>> /\ provider_adapter # "none")
                          => call.pc = "is_available" /\ call.raised = "none"
                    /\ call.key_get = <<>> /\ call.key_set = <<>> /\ call.nth = 0
                    /\ UNCHANGED <<_cache, cache_dir, call_count>>
       /\ \A i \in DOMAIN calls :
             Available(i, FALSE) =>
                /\ calls'[i].pc = "done"
                /\ calls'[i].raised = Unavailable
                /\ calls'[i].key_get = <<>> /\ calls'[i].key_set = <<>>
                /\ calls'[i].nth = 0
                /\ UNCHANGED <<_cache, cache_dir, call_count>>]_vars

(* A call ended with "Provider is not available" while the cache held a    *)
(* live entry for its request.                                             *)
C10_Witness ==
    \E i \in DOMAIN calls :
        /\ calls[i].raised = Unavailable
        /\ backend # "none"
        /\ IsResponse(CacheGet(_cache, cache_dir, now,
                               _generate_cache_key(calls[i].req, now)).ret)

(* The step in which the provider fails call i: the call ends with the     *)
(* provider's own error, nothing is stored and the provider is not asked   *)
(* again.                                                                  *)
FailureIsPassedOn(i) ==
    /\ calls'[i].pc = "done"
    /\ calls'[i].raised = ProviderFailure
    /\ calls'[i].nth = calls[i].nth /\ calls[i].nth # 0
    /\ calls'[i].key_set = <<>>
    /\ UNCHANGED <<_cache, cache_dir, call_count>>

(* The name under which the store keeps the entry of a key. *)
StoredAs(key) == IF backend = "file" THEN _get_cache_file_path(key) ELSE key

KeyUses ==
    {[req |-> calls[i].req, at |-> calls[i].get_at, key |-> calls[i].key_get] :
        i \in {j \in DOMAIN calls : calls[j].key_get # <<>>}}
    \cup {[req |-> calls[i].req, at |-> calls[i].set_at, key |-> calls[i].key_set] :
             i \in {j \in DOMAIN calls : calls[j].key_set # <<>>}}

(* The clock hour of an instant: int(time.time() / 3600). *)
Hour(t) == t \div HourTicks

(* Over every request and every instant of the model: two derivations     *)
(* agree exactly when request and clock hour agree.                        *)
KeysOverPool ==
    \A q, r \in Requests, t, u \in 0 .. HourTicks :
        (q = r /\ Hour(t) = Hour(u))
            <=> (_generate_cache_key(q, t) = _generate_cache_key(r, u))

\* C12, as stated: the cache key is a function of the request payload and the
\* configuration alone: derivations with equal data and configuration yield
\* the same key, derivations with different data or configuration yield
\* different keys.
C12_KeyIsFunctionOfRequest ==
    \A u, v \in KeyUses : (u.req = v.req) <=> (u.key = v.key)

\* C12, amended: the cache key is a function of the request payload, the
\* configuration and the clock hour of the derivation: derivations with
\* equal data and configuration made in the same clock hour yield the same
\* key; derivations that differ in data, in configuration or in clock hour
\* yield different keys.
C12_KeyIsFunctionOfRequestAndHour ==
    /\ \A u, v \in KeyUses :
          (u.req = v.req /\ Hour(u.at) = Hour(v.at)) <=> (u.key = v.key)
    /\ KeysOverPool

(* One run derived the key of the same request twice at different instants *)
(* of one hour, and the keys of two different requests.                    *)
C12_Witness ==
    /\ \E u, v \in KeyUses : u.req = v.req /\ u.at # v.at /\ u.key = v.key
    /\ \E u, v \in KeyUses : u.req # v.req /\ u.key # v.key

(* Call i has looked the cache up; it was answered from the cache. *)
LookedUp(i) == calls[i].key_get # <<>> /\ calls[i].raised = "none"
Hit(i) == LookedUp(i) /\ calls[i].pc = "done" /\ calls[i].nth = 0

(* The calls that stored the response of the request of call i in the      *)
(* clock hour in which call i looked the cache up.                         *)
StoredThisHour(i) ==
    {j \in DOMAIN calls :
        /\ calls[j].key_set # <<>>
        /\ calls[j].raised = "none"
        /\ calls[j].req = calls[i].req
        /\ Hour(calls[j].set_at) = Hour(calls[i].get_at)}

\* C13: the client hits the cache only for a repeat made in the clock hour in
\* which the entry was stored: a hit returns what a call with the same
\* request stored in that same hour, and an identical request repeated after
\* the hour has changed derives another key, misses and invokes the provider
\* again, also when the TTL of the earlier entry has not run out.
C13_HitsOnlyWithinTheHour ==
    \A i \in DOMAIN calls :
        /\ Hit(i) => \E j \in StoredThisHour(i) \ {i} :
                        /\ calls[j].key_set = calls[i].key_get
                        /\ calls[j].result = calls[i].result
        /\ (LookedUp(i) /\ StoredThisHour(i) \ {i} = {}) => calls[i].nth # 0
        /\ \A j \in DOMAIN calls :
              (/\ LookedUp(i) /\ calls[j].key_set # <<>>
               /\ calls[j].req = calls[i].req
               /\ Hour(calls[j].set_at) # Hour(calls[i].get_at))
                  => calls[j].key_set # calls[i].key_get

(* An identical request was repeated in the next hour, before the TTL of   *)
(* the entry the first call stored had run out, and invoked the provider.  *)
C13_Witness ==
    \E i, j \in DOMAIN calls :
        /\ j < i
        /\ calls[j].req = calls[i].req
        /\ calls[j].key_set # <<>> /\ calls[j].raised = "none"
        /\ LookedUp(i) /\ calls[i].pc = "done"
        /\ Hour(calls[i].get_at) # Hour(calls[j].set_at)
        /\ calls[i].get_at <= calls[j].set_at + default_ttl
        /\ calls[i].nth # 0

----------------------------------------------------------------------------
(* Further properties of the cache backends.                               *)

(* The store (mem, dir) keeps, for key, this response with this expiry. *)
Holds(mem, dir, key, response, expires_at) ==
    IF backend = "memory"
    THEN key \in DOMAIN mem /\ mem[key] = Entry(response, expires_at)
    ELSE /\ _get_cache_file_path(key) \in DOMAIN dir
         /\ dir[_get_cache_file_path(key)] = CacheJson(response, expires_at)

(* The names of the entries of the store: keys of _cache, files of         *)
(* cache_dir.                                                              *)
Names(mem, dir) == IF backend = "memory" THEN DOMAIN mem ELSE DOMAIN dir

\* C14, as stated: a set that succeeds creates the entry of the key or
\* overwrites it, response and expiry both, an overwrite leaving the number
\* of entries as it was; the expiry is now + ttl for every ttl that was
\* given and now + default_ttl when none was.
C14_SetStoresWithGivenTtl ==
    [][\A key \in fixture.keys, r \in fixture.responses,
          given \in BOOLEAN, ttl \in TtlArgs :
          (SetStep(key) /\ last'.raised = "none" /\ Set(key, r, given, ttl)) =>
             /\ Holds(_cache', cache_dir', key, r,
                      now + (IF given THEN ttl ELSE default_ttl))
             /\ Cardinality(Names(_cache', cache_dir'))
                   = Cardinality(Names(_cache, cache_dir) \cup {StoredAs(key)})]_vars

----------------------------------------------------------------------------
(* An InMemoryLLMCache (in _cache) and a FileLLMCache (in cache_dir) that  *)
(* are constructed with the same default_ttl and receive the same calls    *)
(* at the same clock readings.  raised and ret of a call record are pairs: *)
(* the memory cache's first, the file cache's second.                      *)

InitLockstep ==
    /\ backend = "both"
    /\ default_ttl \in DefaultTtls
    /\ max_file_size = 10 * 1024 * 1024
    /\ now = 0
    /\ _cache = <<>>
    /\ cache_dir = <<>>
    /\ fixture \in Fixtures
    /\ last = NoCall
    /\ provider_adapter = "none"
    /\ call_count = 0
    /\ calls = <<>>

(* The record of one call made on both caches. *)
BothCall(op, key, m, f, mret, fret) ==
    Call(op, key, <<m, f>>, <<mret, fret>>, 0, NoExpiry, {})

(* set(key, response[, ttl]) on both caches *)
SetBoth(key, response, given, ttl) ==
    /\ _cache' = MemSet(_cache, key, response, given, ttl, now, default_ttl).cache
    /\ cache_dir' = FileSet(cache_dir, key, response, given, ttl, now, default_ttl,
                            max_file_size).dir
    /\ last' = BothCall("set", key,
                        MemSet(_cache, key, response, given, ttl, now,
                               default_ttl).raised,
                        FileSet(cache_dir, key, response, given, ttl, now,
                                default_ttl, max_file_size).raised,
                        None, None)
    /\ UNCHANGED <<backend, default_ttl, max_file_size, now, fixture, clientVars>>

(* get(key) on both caches *)
GetBoth(key) ==
    /\ _cache' = MemGet(_cache, key, now).cache
    /\ cache_dir' = FileGet(cache_dir, key, now).dir
    /\ last' = BothCall("get", key,
                        MemGet(_cache, key, now).raised,
                        FileGet(cache_dir, key, now).raised,
                        MemGet(_cache, key, now).ret,
                        FileGet(cache_dir, key, now).ret)
    /\ UNCHANGED <<backend, default_ttl, max_file_size, now, fixture, clientVars>>

(* clear() on both caches *)
ClearBoth ==
    /\ _cache' = MemClear(_cache)
    /\ cache_dir' = FileClear(cache_dir)
    /\ last' = BothCall("clear", <<>>, "none", "none", None, None)
    /\ UNCHANGED <<backend, default_ttl, max_file_size, now, fixture, clientVars>>

NextLockstep ==
    \/ Tick
    \/ \E key \in Keys, response \in SetArgs : SetBoth(key, response, FALSE, 0)
    \/ \E key \in Keys, response \in SetArgs, ttl \in TtlArgs :
          SetBoth(key, response, TRUE, ttl)
    \/ \E key \in Keys : GetBoth(key)
    \/ ClearBoth

SpecLockstep == InitLockstep /\ [][NextLockstep]_vars

\* C15, as stated: for any sequence of set, get and clear calls and clock
\* advances applied to an InMemoryLLMCache and a FileLLMCache in lockstep
\* (same default_ttl, responses within the size cap, nothing else writing to
\* the directory), every get returns absent in both or deep-equal responses
\* in both.
C15_BackendsAgreeOnGet ==
    last.op = "get" =>
        /\ last.raised = <<"none", "none">>
        /\ last.ret[1] = last.ret[2]

----------------------------------------------------------------------------
(* Further properties of the single cache.                                 *)

(* What the store keeps under a name: a key's dict value, or a file's text. *)
Content(mem, dir, name) == IF backend = "memory" THEN mem[name] ELSE dir[name]

\* C16: get has no side effect other than the lazy deletion of the looked-up
\* entry when it is found expired.  A get of a missing key or of a live
\* entry leaves the store unchanged, so that the same get made again returns
\* the same response and again changes nothing; a get of an expired entry
\* removes that entry and no other, and changes no entry that stays.
C16_GetOnlyDeletesExpiredEntry ==
    [][AnyGet =>
        LET expired == last'.expires_at # NoExpiry /\ now > last'.expires_at
            again == CacheGet(_cache', cache_dir', now, last'.key)
        IN  /\ ~expired =>
                 /\ UNCHANGED <<_cache, cache_dir>>
                 /\ last'.removed = {}
                 /\ again.ret = last'.ret
                 /\ again.mem = _cache' /\ again.dir = cache_dir'
            /\ expired =>
                 /\ last'.removed = {StoredAs(last'.key)}
                 /\ Names(_cache', cache_dir')
                       = Names(_cache, cache_dir) \ {StoredAs(last'.key)}
                 /\ \A name \in Names(_cache', cache_dir') :
                       Content(_cache', cache_dir', name)
                          = Content(_cache, cache_dir, name)]_vars

(* A get found its entry expired and removed it while another entry, also  *)
(* expired, stayed in the store.                                           *)
C16_Witness ==
    /\ last.op = "get"
    /\ last.expires_at # NoExpiry
    /\ now > last.expires_at
    /\ last.removed = {StoredAs(last.key)}
    /\ \E name \in Names(_cache, cache_dir) :
          IF backend = "memory"
          THEN now > _cache[name].expires_at
          ELSE now > FileExpiresAt(cache_dir[name])

\* C17: in both backends get(K) for a key under which the store holds
\* nothing returns absent and does not raise; the cache may be empty or not,
\* and K may be a key that set rejects, such as the empty string.
C17_MissingKeyIsAbsent ==
    [][(AnyGet /\ StoredAs(last'.key) \notin Names(_cache, cache_dir)) =>
          /\ last'.ret = None
          /\ last'.raised = "none"]_vars

(* A get of a key that set rejects returned absent from a cache that was   *)
(* not empty.                                                              *)
C17_Witness ==
    /\ last.op = "get"
    /\ last.key \in InvalidKeys
    /\ last.ret = None
    /\ last.raised = "none"
    /\ last.expires_at = NoExpiry
    /\ Names(_cache, cache_dir) # {}

----------------------------------------------------------------------------
(* Construction of a cache, with arguments the constructors reject too.    *)

(* The ValueError messages of the two constructors. *)
BadTtl == "ValueError: TTL must be positive"
BadMaxFileSize == "ValueError: Max file size must be positive"
ValueError == {BadTtl, BadMaxFileSize}

(* The value of cache_dir while no directory exists at the path. *)
NoDirectory == [p \in {<<>>} |-> "ENOENT"]

(* self.cache_dir.mkdir(parents=True, exist_ok=True) *)
Mkdir(d) == IF d = NoDirectory THEN <<>> ELSE d

(* The arguments callers construct a cache with. *)
InitTtls == {-1, 0, MaxTtl, MaxTtl + 1}
InitMaxFileSizes == {-1, 0} \cup MaxFileSizes

(* InMemoryLLMCache.__init__ *)
MemInit(ttl) ==
    IF ttl <= 0 THEN [raised |-> BadTtl] ELSE [raised |-> "none"]

(* A constructor that creates the directory before it checks its arguments. *)
FileInitMkdirFirst(d, ttl, size) ==
    IF ttl <= 0 THEN [raised |-> BadTtl, dir |-> Mkdir(d)]
    ELSE IF size <= 0 THEN [raised |-> BadMaxFileSize, dir |-> Mkdir(d)]
    ELSE [raised |-> "none", dir |-> Mkdir(d)]

(* A constructor that starts from an empty directory. *)
FileInitEmptying(d, ttl, size) ==
    IF ttl <= 0 THEN [raised |-> BadTtl, dir |-> d]
    ELSE IF size <= 0 THEN [raised |-> BadMaxFileSize, dir |-> d]
    ELSE [raised |-> "none", dir |-> <<>>]

(* FileLLMCache.__init__ on a path where d is found. *)
FileInit(d, ttl, size) ==
    IF ttl <= 0 THEN [raised |-> BadTtl, dir |-> d]
    ELSE IF size <= 0 THEN [raised |-> BadMaxFileSize, dir |-> d]
    ELSE [raised |-> "none", dir |-> Mkdir(d)]

(* No cache has been constructed; the directory may or may not exist. *)
InitConstruct ==
    /\ backend = "none"
    /\ default_ttl = 0
    /\ max_file_size = 10 * 1024 * 1024
    /\ now = 0
    /\ _cache = <<>>
    /\ cache_dir \in {NoDirectory, <<>>}
    /\ fixture \in {f \in Fixtures : <<"a">> \in f.keys /\ EmbR \in f.responses}
    /\ last = NoCall
    /\ provider_adapter = "none"
    /\ call_count = 0
    /\ calls = <<>>

(* InMemoryLLMCache(default_ttl=ttl) *)
NewInMemoryLLMCache(ttl) ==
    /\ backend = "none"
    /\ last' = Call("InMemoryLLMCache", <<>>, MemInit(ttl).raised, None, 0,
                    NoExpiry, {})
    /\ IF MemInit(ttl).raised = "none"
       THEN /\ backend' = "memory"
            /\ default_ttl' = ttl
            /\ _cache' = <<>>
       ELSE UNCHANGED <<backend, default_ttl, _cache>>
    /\ UNCHANGED <<max_file_size, now, cache_dir, fixture, clientVars>>

(* FileLLMCache(cache_dir, default_ttl=ttl, max_file_size=size) *)
NewFileLLMCache(ttl, size) ==
    /\ backend = "none"
    /\ last' = Call("FileLLMCache", <<>>, FileInit(cache_dir, ttl, size).raised,
                    None, 0, NoExpiry, {})
    /\ cache_dir' = FileInit(cache_dir, ttl, size).dir
    /\ IF FileInit(cache_dir, ttl, size).raised = "none"
       THEN /\ backend' = "file"
            /\ default_ttl' = ttl
            /\ max_file_size' = size
       ELSE UNCHANGED <<backend, default_ttl, max_file_size>>
    /\ UNCHANGED <<now, _cache, fixture, clientVars>>

(* Construction attempts, then the calls on the cache that was constructed. *)
NextConstruct ==
    \/ \E ttl \in InitTtls : NewInMemoryLLMCache(ttl)
    \/ \E ttl \in InitTtls, size \in InitMaxFileSizes : NewFileLLMCache(ttl, size)
    \/ backend # "none" /\ Tick
    \/ \E key \in Keys, response \in SetArgs :
          backend # "none" /\ Set(key, response, FALSE, 0)
    \/ \E key \in Keys, response \in SetArgs, ttl \in TtlArgs :
          backend # "none" /\ Set(key, response, TRUE, ttl)
    \/ \E key \in Keys : backend # "none" /\ Get(key)
    \/ backend # "none" /\ Clear
    \/ backend # "none" /\ Size
    \/ backend # "none" /\ CleanupExpired

SpecConstruct == InitConstruct /\ [][NextConstruct]_vars

\* C18: constructing either backend with default_ttl <= 0, or FileLLMCache
\* with max_file_size <= 0, raises ValueError at construction; no cache
\* results, and a cache directory that did not exist before the failed
\* FileLLMCache construction does not exist after it.
C18_BadConfigurationIsRejected ==
    [][/\ \A ttl \in InitTtls :
            (NewInMemoryLLMCache(ttl) /\ ttl <= 0) =>
                /\ last'.raised \in ValueError
                /\ backend' = "none"
       /\ \A ttl \in InitTtls, size \in InitMaxFileSizes :
            (NewFileLLMCache(ttl, size) /\ (ttl <= 0 \/ size <= 0)) =>
                /\ last'.raised \in ValueError
                /\ backend' = "none"
                /\ cache_dir' = cache_dir]_vars

(* A FileLLMCache construction on a path without a directory was rejected   *)
(* for its max_file_size, and there is still no directory.                 *)
C18_Witness ==
    /\ last.op = "FileLLMCache"
    /\ last.raised = BadMaxFileSize
    /\ backend = "none"
    /\ cache_dir = NoDirectory

----------------------------------------------------------------------------
(* The file names of a FileLLMCache, over keys of every character the      *)
(* pattern of _get_cache_file_path names and of some it does not.          *)

KeyChars == Unsafe \cup {"a", "_", " ", "."}

RECURSIVE StrsUpTo(_)
StrsUpTo(n) ==
    IF n = 0 THEN {<<>>}
    ELSE StrsUpTo(n - 1)
            \cup {Append(k, c) : k \in {x \in StrsUpTo(n - 1) : Len(x) = n - 1},
                                 c \in KeyChars}

PathKeys == StrsUpTo(MaxKeyLen)

(* A FileLLMCache on an empty directory whose callers use one key. *)
InitPath ==
    /\ backend = "file"
    /\ default_ttl \in DefaultTtls
    /\ max_file_size = 10 * 1024 * 1024
    /\ now = 0
    /\ _cache = <<>>
    /\ cache_dir = <<>>
    /\ fixture \in {[keys |-> {key}, responses |-> {ChatR}, requests |-> {}] :
                       key \in PathKeys}
    /\ last = NoCall
    /\ provider_adapter = "none"
    /\ call_count = 0
    /\ calls = <<>>

NextPath ==
    \/ \E key \in fixture.keys, response \in fixture.responses :
          Set(key, response, FALSE, 0)
    \/ \E key \in fixture.keys : Get(key)
    \/ Clear

SpecPath == InitPath /\ [][NextPath]_vars

(* name is key with each of < > : " / \ | ? * replaced by an underscore,    *)
(* followed by .json.                                                      *)
IsSanitized(key, name) ==
    /\ Len(name) = Len(key) + 1
    /\ name[Len(name)] = ".json"
    /\ \A i \in 1 .. Len(key) :
          /\ key[i] \in {"<", ">", ":", "\"", "/", "\\", "|", "?", "*"} => name[i] = "_"
          /\ key[i] \notin {"<", ">", ":", "\"", "/", "\\", "|", "?", "*"}
                => name[i] = key[i]

\* C19: FileLLMCache maps every key to a file directly under cache_dir whose
\* name is the key with each of the characters < > : " / \ | ? * replaced by
\* an underscore, followed by .json; the file name contains none of those
\* characters; and the same key always yields the same path: the file a set
\* of the key writes is the one file of the directory, and it is the file a
\* later get of the key reads.
C19_FileNameIsSanitizedKey ==
    [][/\ \A key \in fixture.keys :
            /\ IsSanitized(key, _get_cache_file_path(key))
            /\ \A i \in DOMAIN _get_cache_file_path(key) :
                  _get_cache_file_path(key)[i]
                     \notin {"<", ">", ":", "\"", "/", "\\", "|", "?", "*"}
       /\ \A key \in fixture.keys :
            (SetStep(key) /\ last'.raised = "none") =>
               /\ Cardinality(DOMAIN cache_dir') = 1
               /\ \A name \in DOMAIN cache_dir' : IsSanitized(key, name)
       /\ \A key \in fixture.keys :
            (Get(key) /\ last'.key = key /\ last'.op = "get"
                /\ \E name \in DOMAIN cache_dir : IsSanitized(key, name))
               => last'.ret \in fixture.responses]_vars

(* A get read the file that a set of a key made only of characters the      *)
(* pattern names had written.                                              *)
C19_Witness ==
    /\ last.op = "get"
    /\ Len(last.key) >= 2
    /\ \A i \in DOMAIN last.key : last.key[i] \in Unsafe
    /\ \E i, j \in DOMAIN last.key : last.key[i] # last.key[j]
    /\ last.ret = ChatR
    /\ \E name \in DOMAIN cache_dir :
          /\ DOMAIN cache_dir = {name}
          /\ Len(name) = Len(last.key) + 1
          /\ \A i \in 1 .. Len(last.key) : name[i] = "_"

----------------------------------------------------------------------------
(* The life of an entry.                                                   *)

\* C20: entries are created only via set.  In both backends a step that
\* adds an entry is a set that did not raise; get, size, clear and cleanup
\* (and the passing of time) add no entry and leave the response and the
\* expiry of every entry that survives them as they were: they can only
\* remove entries.
C20_OnlySetCreatesEntries ==
    [][/\ ~(Names(_cache', cache_dir') \subseteq Names(_cache, cache_dir))
             => (last'.op = "set" /\ last'.raised = "none")
       /\ last'.op # "set" =>
             /\ Names(_cache', cache_dir') \subseteq Names(_cache, cache_dir)
             /\ \A name \in Names(_cache', cache_dir') :
                   Content(_cache', cache_dir', name)
                      = Content(_cache, cache_dir, name)]_vars

(* A size or cleanup call removed an expired entry and another entry       *)
(* survived it.                                                            *)
C20_Witness ==
    /\ last.op \in {"size", "cleanup"}
    /\ last.removed # {}
    /\ Names(_cache, cache_dir) # {}

----------------------------------------------------------------------------
(* Size and cleanup.                                                       *)

(* The keys for which InMemoryLLMCache.get would return a response at t. *)
Gettable(c, t) == {k \in DOMAIN c : MemGet(c, k, t).ret # None}

\* C21: InMemoryLLMCache.size() first purges every expired entry and then
\* returns the remaining count: after size() has returned the dict holds no
\* expired entry, every entry that had not expired is still there as it was,
\* and the number returned is the number of keys for which get would return
\* a response at that instant, before the call as well as after it.
C21_MemSizePurgesThenCounts ==
    [][(last'.op = "size" /\ backend = "memory" /\ Size) =>
          /\ \A k \in DOMAIN _cache' : ~(now > _cache'[k].expires_at)
          /\ \A k \in DOMAIN _cache :
                ~(now > _cache[k].expires_at) =>
                    (k \in DOMAIN _cache' /\ _cache'[k] = _cache[k])
          /\ DOMAIN _cache' \subseteq DOMAIN _cache
          /\ last'.count = Cardinality(Gettable(_cache, now))
          /\ last'.count = Cardinality(Gettable(_cache', now))
          /\ last'.count = Cardinality(DOMAIN _cache')]_vars

(* A size() of the memory backend returned 1 after it had purged the one   *)
(* expired entry of two.                                                   *)
C21_Witness ==
    /\ last.op = "size"
    /\ backend = "memory"
    /\ Cardinality(last.removed) = 1
    /\ last.count = 1
    /\ Cardinality(DOMAIN _cache) = 1
    /\ \A k \in DOMAIN _cache : now <= _cache[k].expires_at

(* The step is a successful set of a key right after a successful set of   *)
(* another key had left its file as the only one of the directory: two     *)
(* entries have been inserted into an empty FileLLMCache.                  *)
SecondInsert(key) ==
    /\ backend = "file"
    /\ last.op = "set" /\ last.raised = "none" /\ last.key # key
    /\ DOMAIN cache_dir = {_get_cache_file_path(last.key)}
    /\ SetStep(key) /\ last'.raised = "none"

\* C22, as stated: FileLLMCache.size() returns the number of *.json files
\* present in the cache directory and deletes nothing; inserting N entries
\* yields size() = N immediately after the insertion (here N = 2: a second
\* key is set after a first), and the count still includes the entries that
\* have expired but have not been read or cleaned up.
C22_FileSizeCountsFiles ==
    [][/\ (last'.op = "size" /\ backend = "file" /\ Size) =>
             /\ last'.count = Cardinality(Glob(cache_dir))
             /\ cache_dir' = cache_dir
             /\ last'.count
                   >= Cardinality({p \in Glob(cache_dir) :
                                      now > FileExpiresAt(cache_dir[p])})
                      + Cardinality(ValidEntries)
       /\ \A key \in fixture.keys :
             SecondInsert(key) => FileSize(cache_dir') = 2]_vars

(* json.load cannot parse the file. *)
Unparseable(text) == json_load(text).raised # "none"

(* The file holds an expires_at that fromisoformat reads and that has      *)
(* passed at t.                                                            *)
ExpiredFile(text, t) ==
    /\ ~Unparseable(text)
    /\ Subscript(json_load(text).value, "expires_at").raised = "none"
    /\ fromisoformat(Subscript(json_load(text).value, "expires_at").value).raised
          = "none"
    /\ t > fromisoformat(Subscript(json_load(text).value, "expires_at").value).value

\* C23, as stated: FileLLMCache._cleanup_expired deletes every cache file
\* that is expired or unparseable and preserves every well-formed file that
\* has not expired, without raising; and get, set and size do not invoke it:
\* they never remove a file other than the file of the key they were called
\* with.
C23_FileCleanupReapsWithoutRaising ==
    [][/\ (last'.op = "cleanup" /\ backend = "file" /\ CleanupExpired) =>
             /\ last'.raised = "none"
             /\ \A p \in Glob(cache_dir) :
                   /\ (Unparseable(cache_dir[p]) \/ ExpiredFile(cache_dir[p], now))
                         => p \notin DOMAIN cache_dir'
                   /\ (cache_dir[p] \notin Foreign /\ ~ExpiredFile(cache_dir[p], now))
                         => (p \in DOMAIN cache_dir' /\ cache_dir'[p] = cache_dir[p])
       /\ (last'.op \in {"get", "set", "size"} /\ backend = "file"
             /\ (AnyGet \/ Size \/ SetStep(last'.key))) =>
             (DOMAIN cache_dir) \ (DOMAIN cache_dir')
                \subseteq {_get_cache_file_path(last'.key)}]_vars

----------------------------------------------------------------------------
(* Writes of cache files that the filesystem fails.                        *)

(* How the try block of FileLLMCache.set, lines 306-311, can fail: "open"  *)
(* is an OSError raised by mkdir or by open (no permission), before the    *)
(* file is touched; "write" is an OSError raised by f.write or by the      *)
(* close that flushes it (no space left), after open(cache_file, 'w') has  *)
(* truncated the file.                                                     *)
WriteFaults == {"open", "write"}

WriteFailed == "LLMCacheError: Failed to write cache file"

(* What a write that failed half-way leaves at the path: no text, or the   *)
(* beginning of one; json.load parses neither.                             *)
Truncated == [truncated |-> "{"]

(* Lines 306-314 with the fault. *)
FileWrite(d, path, text, fault) ==
    IF fault = "open" THEN [dir |-> d, raised |-> WriteFailed]
    ELSE IF fault = "write"
    THEN [dir |-> DictSet(d, path, Truncated), raised |-> WriteFailed]
    ELSE [dir |-> DictSet(d, path, text), raised |-> "none"]

(* FileLLMCache.set on a filesystem that fails the write with the fault. *)
FileSetFault(d, key, response, given, ttl, t, dflt, maxsize, fault) ==
    LET cache_json == CacheJson(response, t + TtlOrDefault(given, ttl, dflt))
    IN  IF SetArgsError(key, response) # "none"
        THEN [dir |-> d, raised |-> SetArgsError(key, response)]
        ELSE IF JsonLen(cache_json.json, 0) > maxsize
             THEN [dir |-> d, raised |-> TooLarge]
        ELSE FileWrite(d, _get_cache_file_path(key), cache_json, fault)

(* Lines 129-133 / 205-209 when the provider has answered and the write of *)
(* cache.set fails.                                                        *)
StoreFault(call, dir, t, fault) ==
    Stored(call, _generate_cache_key(call.req, t), t,
           ProviderResponse(call.req, call.nth),
           [mem |-> <<>>,
            dir |-> FileSetFault(dir, _generate_cache_key(call.req, t),
                                 ProviderResponse(call.req, call.nth), FALSE, 0, t,
                                 default_ttl, max_file_size, fault).dir,
            raised |-> FileSetFault(dir, _generate_cache_key(call.req, t),
                                    ProviderResponse(call.req, call.nth), FALSE, 0, t,
                                    default_ttl, max_file_size, fault).raised])

(* The provider answers call i and the write of the cache file fails. *)
ProviderDoneWriteFails(i, fault) ==
    /\ calls[i].pc = "provider"
    /\ backend = "file"
    /\ Resume(i, StoreFault(calls[i], cache_dir, now, fault))
    /\ UNCHANGED <<backend, default_ttl, max_file_size, now, fixture, last,
                   provider_adapter, call_count>>

(* An LLMClient over a FileLLMCache. *)
InitClientFault == InitClient /\ backend = "file"

NextClientFault ==
    \/ TickHour
    \/ \E req \in fixture.requests : InFlight = {} /\ Begin(req)
    \/ \E i \in DOMAIN calls, answer \in BOOLEAN : Available(i, answer)
    \/ \E i \in DOMAIN calls, ok \in BOOLEAN : ProviderDone(i, ok)
    \/ \E i \in DOMAIN calls, fault \in WriteFaults : ProviderDoneWriteFails(i, fault)

SpecClientFault == InitClientFault /\ [][NextClientFault]_vars

\* C24: a failed cache write is not swallowed.  When the provider has
\* answered and the write of FileLLMCache.set fails, set raises the
\* LLMCacheError "Failed to write cache file", and get_chat_completion /
\* generate_embeddings ends with that error: the call returns no response,
\* although the provider was invoked for it.
C24_FailedWriteIsRaised ==
    [][\A i \in DOMAIN calls, fault \in WriteFaults :
          (/\ calls[i].pc = "provider"
           /\ calls'[i] # calls[i]
           /\ ProviderDoneWriteFails(i, fault)) =>
             /\ FileSetFault(cache_dir, _generate_cache_key(calls[i].req, now),
                             ProviderResponse(calls[i].req, calls[i].nth), FALSE, 0,
                             now, default_ttl, max_file_size, fault).raised
                   = WriteFailed
             /\ calls'[i].pc = "done"
             /\ calls'[i].raised = WriteFailed
             /\ calls'[i].result = None
             /\ calls'[i].nth = calls[i].nth /\ calls[i].nth # 0
             /\ UNCHANGED call_count]_vars

(* A call whose provider invocation succeeded ended with the error of the  *)
(* failed cache write, and a later call for the same request went to the   *)
(* provider again.                                                         *)
C24_Witness ==
    \E i, j \in DOMAIN calls :
        /\ i < j
        /\ calls[i].raised = WriteFailed
        /\ calls[i].nth # 0
        /\ calls[j].req = calls[i].req
        /\ calls[j].nth > calls[i].nth

----------------------------------------------------------------------------
(* Further properties of the client.                                       *)

(* The calls that have passed the checks of lines 108-116 / 184-192. *)
PassedValidation ==
    {i \in DOMAIN calls :
        \/ calls[i].pc = "provider"
        \/ calls[i].pc = "done" /\ calls[i].raised \in {"none", ProviderFailure}}

\* C25: when LLMClient has no cache attached, every get_chat_completion /
\* generate_embeddings call that passes validation invokes the provider
\* exactly once, an invocation of its own, and a call that returns returns
\* that invocation's response; so the provider has been invoked as many
\* times as calls have passed validation, identical calls included.
C25_NoCacheEveryCallInvokesProvider ==
    backend = "none" =>
        /\ \A i \in PassedValidation :
              /\ calls[i].nth \in 1 .. call_count
              /\ \A j \in PassedValidation : calls[j].nth = calls[i].nth => j = i
              /\ (calls[i].pc = "done" /\ calls[i].raised = "none")
                    => calls[i].result = ProviderResponse(calls[i].req, calls[i].nth)
              /\ calls[i].key_get = <<>> /\ calls[i].key_set = <<>>
        /\ \A i \in (DOMAIN calls) \ PassedValidation : calls[i].nth = 0
        /\ call_count = Cardinality(PassedValidation)
        /\ _cache = <<>> /\ cache_dir = <<>>

(* Without a cache two identical calls each invoked the provider and each  *)
(* returned the response of its own invocation.                            *)
C25_Witness ==
    /\ backend = "none"
    /\ \E i, j \in DOMAIN calls :
          /\ i # j
          /\ calls[i].req = calls[j].req
          /\ calls[i].pc = "done" /\ calls[j].pc = "done"
          /\ calls[i].raised = "none" /\ calls[j].raised = "none"
          /\ calls[i].nth = 1 /\ calls[j].nth = 2
          /\ calls[i].result # calls[j].result
    /\ call_count = 2

----------------------------------------------------------------------------
(* Keys and instances.                                                     *)

\* C26, as stated: key isolation.  In both backends set(K1, R) does not
\* change the result of get(K2) for any key K2 different from K1; and in
\* FileLLMCache two distinct keys never share a cache file.
C26_KeysAreIsolated ==
    [][\A k1 \in fixture.keys :
          (SetStep(k1) /\ last'.raised = "none") =>
             \A k2 \in Keys \ {k1} :
                /\ CacheGet(_cache', cache_dir', now, k2).ret
                      = CacheGet(_cache, cache_dir, now, k2).ret
                /\ backend = "file"
                      => _get_cache_file_path(k2) # _get_cache_file_path(k1)]_vars

(* No call has stored a response under the key. *)
NobodyStored(key) == \A k \in DOMAIN calls : calls[k].key_set # key

\* C27: overlapping identical requests are not coalesced.  With a cache
\* attached, when a call looks up the cache while another call with the same
\* request is still awaiting the provider (and no call has stored under the
\* key yet), it misses too and the provider is invoked again, for it alone;
\* each call that the provider answers returns the response of its own
\* invocation; and after each cache.set the cache entry holds the response
\* of the call that ran it, so that it ends up with the response of
\* whichever call ran cache.set last.
C27_OverlappingCallsAreNotCoalesced ==
    [][\A j \in DOMAIN calls :
          /\ (/\ backend # "none"
              /\ calls[j].pc = "is_available"
              /\ calls'[j].avail = "yes"
              /\ \E i \in DOMAIN calls :
                    /\ i # j
                    /\ calls[i].pc = "provider"
                    /\ calls[i].req = calls[j].req
              /\ NobodyStored(_generate_cache_key(calls[j].req, now))
              /\ Available(j, TRUE)) =>
                /\ calls'[j].pc = "provider"
                /\ calls'[j].nth = call_count + 1
                /\ call_count' = call_count + 1
                /\ \A i \in (DOMAIN calls) \ {j} : calls[i].nth # calls'[j].nth
          /\ (/\ backend # "none"
              /\ calls[j].pc = "provider"
              /\ calls'[j].pc = "done"
              /\ calls'[j].raised = "none"
              /\ ProviderDone(j, TRUE)) =>
                /\ calls'[j].result = ProviderResponse(calls[j].req, calls[j].nth)
                /\ CacheGet(_cache', cache_dir', now, calls'[j].key_set).ret
                      = calls'[j].result]_vars

(* Two overlapping calls for one request each invoked the provider and     *)
(* returned their own responses; the call invoked first ran cache.set      *)
(* last, and the cache holds its response.                                 *)
C27_Witness ==
    \E i, j \in DOMAIN calls :
        /\ backend # "none"
        /\ calls[i].req = calls[j].req
        /\ calls[i].pc = "done" /\ calls[j].pc = "done"
        /\ calls[i].raised = "none" /\ calls[j].raised = "none"
        /\ calls[i].overlapped /\ calls[j].overlapped
        /\ calls[i].nth # 0 /\ calls[i].nth < calls[j].nth
        /\ calls[i].result # calls[j].result
        /\ calls[i].key_set = calls[j].key_set
        /\ CacheGet(_cache, cache_dir, calls[i].set_at, calls[i].key_set).ret
              = calls[i].result

(* One caller that makes chat and embedding calls with the same text, and  *)
(* chat calls that differ in the configuration only, on an available       *)
(* provider and a cache.                                                   *)
MixedRequests ==
    {Request("chat", <<"a">>, "c"), Request("chat", <<"a">>, "d"),
     Request("embed", <<"a">>, "c")}

InitMixed ==
    /\ backend \in {"memory", "file"}
    /\ default_ttl \in {1, HourTicks}
    /\ max_file_size = 10 * 1024 * 1024
    /\ now = 0
    /\ _cache = <<>>
    /\ cache_dir = <<>>
    /\ fixture = [keys |-> {}, responses |-> {}, requests |-> MixedRequests]
    /\ last = NoCall
    /\ provider_adapter = "adapter"
    /\ call_count = 0
    /\ calls = <<>>

SpecMixed == InitMixed /\ [][NextSerial]_vars

(* The class of the response a call of this kind is declared to return. *)
ResponseClass(kind) == IF kind = "chat" THEN "LLMResponse" ELSE "EmbeddingResponse"

\* C28: LLMClient never returns a response that belongs to a different
\* request.  Every response a call returns is the result of a provider
\* invocation that some call (itself or another one) made with the same
\* request data and configuration, the key hash being taken as free of
\* collisions; and a chat call never returns an embedding response, nor an
\* embedding call a chat response.
C28_ResponseBelongsToRequest ==
    \A i \in DOMAIN calls :
        (calls[i].pc = "done" /\ calls[i].raised = "none") =>
            /\ \E j \in DOMAIN calls :
                  /\ calls[j].nth # 0
                  /\ calls[j].req = calls[i].req
                  /\ calls[j].raised # ProviderFailure
                  /\ calls[i].result = ProviderResponse(calls[j].req, calls[j].nth)
            /\ calls[i].result.cls = ResponseClass(calls[i].req.kind)

(* A chat call made while the cache held the live entry of an embedding    *)
(* call with the same text and configuration did not get that entry: it    *)
(* invoked the provider and returned a chat response.                      *)
C28_Witness ==
    \E i, j \in DOMAIN calls :
        /\ j < i
        /\ calls[j].req = Request("embed", <<"a">>, "c")
        /\ calls[j].key_set # <<>> /\ calls[j].raised = "none"
        /\ calls[i].req = Request("chat", <<"a">>, "c")
        /\ calls[i].pc = "done" /\ calls[i].raised = "none"
        /\ calls[i].nth # 0
        /\ Hour(calls[i].get_at) = Hour(calls[j].set_at)
        /\ calls[i].get_at <= calls[j].set_at + default_ttl
        /\ calls[i].result.cls = "LLMResponse"

----------------------------------------------------------------------------
(* A FileLLMCache on a filesystem that can fail the write of set.          *)

InitFault == Init /\ backend = "file" /\ max_file_size = 10 * 1024 * 1024

(* cache.set(key, response[, ttl]) whose write the filesystem fails. *)
SetFails(key, response, given, ttl, fault) ==
    /\ backend = "file"
    /\ cache_dir' = FileSetFault(cache_dir, key, response, given, ttl, now,
                                 default_ttl, max_file_size, fault).dir
    /\ last' = Call("set", key,
                    FileSetFault(cache_dir, key, response, given, ttl, now,
                                 default_ttl, max_file_size, fault).raised,
                    None, 0, NoExpiry, {})
    /\ UNCHANGED <<backend, default_ttl, max_file_size, now, _cache, fixture,
                   clientVars>>

NextFault ==
    \/ Tick
    \/ \E key \in Keys, response \in SetArgs : Set(key, response, FALSE, 0)
    \/ \E key \in Keys, response \in SetArgs, ttl \in TtlArgs : Set(key, response, TRUE, ttl)
    \/ \E key \in Keys, response \in SetArgs, fault \in WriteFaults :
          SetFails(key, response, FALSE, 0, fault)
    \/ \E key \in Keys : Get(key)
    \/ Clear
    \/ Size

SpecFault == InitFault /\ [][NextFault]_vars

\* C29, as stated: a FileLLMCache.set that fails at the filesystem write
\* step (LLMCacheError "Failed to write cache file") leaves the cache
\* unchanged: an unexpired entry previously stored under the same key is
\* still returned by a later get(key).
C29_FailedWriteLeavesEntry ==
    [][\A key \in fixture.keys :
          (SetStep(key) /\ last'.raised = WriteFailed) =>
             \A t \in now .. MaxTime :
                FileGet(cache_dir', key, t).ret = FileGet(cache_dir, key, t).ret]_vars

----------------------------------------------------------------------------
(* FileLLMCache instances that follow one another on one cache directory.  *)

InitReopen == Init /\ backend = "file" /\ max_file_size = 10 * 1024 * 1024

(* FileLLMCache(cache_dir, default_ttl=ttl) on the directory of the        *)
(* instance in use; the callers go on with the new instance when the       *)
(* constructor returns one.                                                *)
Reopen(ttl) ==
    /\ backend = "file"
    /\ last' = Call("FileLLMCache", <<>>,
                    FileInit(cache_dir, ttl, max_file_size).raised, None, 0,
                    NoExpiry, {})
    /\ cache_dir' = FileInit(cache_dir, ttl, max_file_size).dir
    /\ default_ttl' = IF FileInit(cache_dir, ttl, max_file_size).raised = "none"
                      THEN ttl ELSE default_ttl
    /\ UNCHANGED <<backend, max_file_size, now, _cache, fixture, clientVars>>

NextReopen ==
    \/ Tick
    \/ \E key \in Keys, response \in SetArgs : Set(key, response, FALSE, 0)
    \/ \E key \in Keys, response \in SetArgs, ttl \in TtlArgs : Set(key, response, TRUE, ttl)
    \/ \E key \in Keys : Get(key)
    \/ \E ttl \in InitTtls : Reopen(ttl)

SpecReopen == InitReopen /\ [][NextReopen]_vars

(* The step is a construction of a FileLLMCache. *)
ConstructStep == last'.op = "FileLLMCache" /\ now' = now

====
